---- MODULE Spec2Model ----
(***************************************************************************)
(* RegressionModel (src/Lesson.ipynb, the #si-exercise cell): a Python     *)
(* class that stores a pandas table x and a response y, optionally appends *)
(* an intercept column, fits OLS or logistic regression into the dict      *)
(* self.results and prints a summary table.                                *)
(*                                                                         *)
(* One model object is followed from its construction on.  The actions are *)
(* the calls a client can make: the constructor, fit_model(), summary(),   *)
(* a read of the attribute results, and an in-place change by the client   *)
(* of the table it passed in (the constructor keeps a reference to that    *)
(* table, not a copy, when no intercept is added).                         *)
(*                                                                         *)
(* Numbers.  A table cell is a small natural number or NaN.  Every number  *)
(* a fit stores is a record [tag, a, b, df]: a and b are exact rationals   *)
(* <<numerator, denominator>> and tag says how the stored float is made    *)
(* from them (see Num below), so that square roots and distribution        *)
(* functions stay symbolic while the linear algebra is exact.              *)
(***************************************************************************)
EXTENDS Integers, Sequences, FiniteSets, TLC

\* Bounds of the model: tables have MinRows..MaxRows rows and 1..MaxCols columns;
\* a column is a step of height 1..MaxVal or a ramp (see StepVectors, RampVectors).
MinRows == 2
MaxRows == 3
MaxCols == 2
MaxVal == 1
\* The history counter streak stops at MaxStreak.
MaxStreak == 2

\* float('nan') in a table cell (cells proper are 0..MaxVal).
NaN == -1

Names == {"a", "intercept"}

VARIABLES
    constructed,       \* an object exists (the constructor returned)
    caller_x,          \* the table object the client passed as x
    x_is_caller,       \* self.x is that very object (no copy was made)
    x_own,             \* self.x when it is an object of the model's own
    y,                 \* self.y
    create_intercept,  \* self.create_intercept
    regression_type,   \* self.regression_type
    results,           \* <<>>: no attribute results; <<d>>: self.results is d
    raised,            \* the exception the last call raised, "None" if none
    printed,           \* what the last call wrote to the console
    returned,          \* <<d>> when the last call returned the dict d
    last_op,           \* the last call
    ran,               \* the estimator the last fit_model() entered
    init_args,         \* the types of the arguments the constructor got
    arg_x,             \* the argument x of the last call, as it was when the call began
    minim_success,     \* <<b>>: minimize() returned in the last fit_model() with success b
    ever_fitted,       \* history: some fit_model() has returned without raising
    replaced,          \* history: what results was when the last fit_model() began
    streak             \* history: fit_model() calls in a row that returned, to MaxStreak

vars == <<constructed, caller_x, x_is_caller, x_own, y, create_intercept,
          regression_type, results, raised, printed, returned, last_op, ran,
          init_args, arg_x, minim_success, ever_fitted, replaced, streak>>

----------------------------------------------------------------------------
\* Values: tables, vectors, arguments.

Range(s) == {s[i] : i \in 1..Len(s)}

SeqsOfLen(S, n) == [1..n -> S]

\* pd.RangeIndex shifted by s: s, s+1, ..., s+n-1 (s = 0 is the default index,
\* s = 1 what a slice such as data.loc[1:n] leaves).
IndexFrom(s, n) == [i \in 1..n |-> s + i - 1]

\* The column vectors of the model: v on the first m rows, 0 below.
StepVectors(n) ==
    {[i \in 1..n |-> IF i <= m THEN v ELSE 0] : m \in 1..n, v \in 1..MaxVal}

\* 0, 1, ..., n-1 and n-1, ..., 1, 0: a trend and its mirror image.  Together with
\* the intercept they are collinear (their sum is n-1 times the column of ones).
RampVectors(n) == {[i \in 1..n |-> i - 1], [i \in 1..n |-> n - i]}

ColumnVectors(n) == StepVectors(n) \cup RampVectors(n)

NoTable == [type |-> "DataFrame", columns |-> <<>>, index |-> <<>>, data |-> <<>>]

DataFrames ==
    UNION {UNION {
        {[type |-> "DataFrame", columns |-> c, index |-> IndexFrom(s, n), data |-> d] :
            c \in SeqsOfLen(Names, k), s \in {0, 1},
            d \in SeqsOfLen(ColumnVectors(n), k)}
        : k \in 1..MaxCols} : n \in MinRows..MaxRows}

\* An x that is no DataFrame (a numpy array, a list).
NotADataFrame == [type |-> "ndarray", columns |-> <<>>, index |-> <<>>, data |-> <<>>]

XArgs == DataFrames \cup {NotADataFrame}

NoVector == [type |-> "Series", index |-> <<>>, values |-> <<>>]

Vectors ==
    UNION {
        {[type |-> t, index |-> IndexFrom(s, n), values |-> v] :
            t \in {"Series", "DataFrame"}, s \in {0, 1}, v \in StepVectors(n)}
        : n \in MinRows..MaxRows}

\* A y that is neither a Series nor a DataFrame.
NotAVector == [type |-> "list", index |-> <<>>, values |-> <<>>]

YArgs == Vectors \cup {NotAVector}

\* create_intercept: a bool, or something else (the int 1, which is no bool).
InterceptArgs == {[type |-> "bool", val |-> TRUE], [type |-> "bool", val |-> FALSE],
                  [type |-> "int", val |-> TRUE]}

\* regression_type: a str, or something else (None).
TypeArgs == {[type |-> "str", val |-> "ols"], [type |-> "str", val |-> "logit"],
             [type |-> "str", val |-> "probit"], [type |-> "NoneType", val |-> "None"]}

NRows(t) == Len(t.index)
NCols(t) == Len(t.columns)

HasNaN(t) == \E j \in 1..NCols(t) : \E i \in 1..NRows(t) : t.data[j][i] = NaN

----------------------------------------------------------------------------
\* The constructor.

ErrXNotDataFrame == "RuntimeError: Matrix 'x' is not a DataFrame."
ErrYNotDataFrame == "RuntimeError: Matrix 'y' is not a DataFrame."
ErrInterceptNotBool == "RuntimeError: Parameter 'create_intercept' must be a boolean value."
ErrTypeUnsupported == "RuntimeError: Only OLS and Logistic regressions ('ols' or 'logit', respectively) are supported"
ErrTypeNotStr == "RuntimeError: Parameter 'regression_type' must be a string with value 'ols' or 'logit'."

\* pd.Series([1]*n): n ones under the default index 0..n-1.
OnesSeries(n) == [type |-> "Series", index |-> IndexFrom(0, n), values |-> [i \in 1..n |-> 1]]

\* The values of Series s under the labels idx: a label s does not have gives NaN.
Reindex(s, idx) ==
    [i \in 1..Len(idx) |->
        IF \E p \in 1..Len(s.index) : s.index[p] = idx[i]
        THEN s.values[CHOOSE p \in 1..Len(s.index) : s.index[p] = idx[i]]
        ELSE NaN]

\* DataFrame.assign(name=s) on a copy of t: s is aligned on t's row labels; a new
\* name is appended as the last column, an existing name has its column(s)
\* overwritten where they stand.
Assign(t, name, s) ==
    LET col == Reindex(s, t.index) IN
    IF name \in Range(t.columns)
    THEN [t EXCEPT !.data = [j \in 1..NCols(t) |->
                                IF t.columns[j] = name THEN col ELSE t.data[j]]]
    ELSE [t EXCEPT !.columns = Append(@, name), !.data = Append(@, col)]

\* add_intercept: self.x = self.x.assign(intercept=pd.Series([1]*np.shape(self.x)[0]))
add_intercept(t) == Assign(t, "intercept", OnesSeries(NRows(t)))

\* As InitRaises, without the comparison of the string with 'ols' and 'logit'.
InitRaisesAnyStr(x_arg, y_arg, ci_arg, rt_arg) ==
    IF x_arg.type # "DataFrame" THEN ErrXNotDataFrame
    ELSE IF y_arg.type \notin {"DataFrame", "Series"} THEN ErrYNotDataFrame
    ELSE IF ci_arg.type # "bool" THEN ErrInterceptNotBool
    ELSE IF rt_arg.type # "str" THEN ErrTypeNotStr
    ELSE "None"

\* As InitRaises, with y looked at before x.
InitRaisesYFirst(x_arg, y_arg, ci_arg, rt_arg) ==
    IF y_arg.type \notin {"DataFrame", "Series"} THEN ErrYNotDataFrame
    ELSE IF x_arg.type # "DataFrame" THEN ErrXNotDataFrame
    ELSE IF ci_arg.type # "bool" THEN ErrInterceptNotBool
    ELSE IF rt_arg.type # "str" THEN ErrTypeNotStr
    ELSE IF rt_arg.val \notin {"ols", "logit"} THEN ErrTypeUnsupported
    ELSE "None"

\* The exception __init__ raises for these arguments, "None" when it returns.
InitRaises(x_arg, y_arg, ci_arg, rt_arg) ==
    IF x_arg.type # "DataFrame" THEN ErrXNotDataFrame
    ELSE IF y_arg.type \notin {"DataFrame", "Series"} THEN ErrYNotDataFrame
    ELSE IF ci_arg.type # "bool" THEN ErrInterceptNotBool
    ELSE IF rt_arg.type # "str" THEN ErrTypeNotStr
    ELSE IF rt_arg.val \notin {"ols", "logit"} THEN ErrTypeUnsupported
    ELSE "None"

NoArgs == [x |-> "", y |-> "", ci |-> "", rt |-> "", rt_val |-> ""]

ArgsOf(x_arg, y_arg, ci_arg, rt_arg) ==
    [x |-> x_arg.type, y |-> y_arg.type, ci |-> ci_arg.type, rt |-> rt_arg.type,
     rt_val |-> rt_arg.val]

\* As CallerTableAfterInit, had add_intercept written the column into the table
\* it was given (self.x['intercept'] = ...).
CallerTableAfterInitInPlace(x_arg, ci_arg) ==
    IF ci_arg.val THEN add_intercept(x_arg) ELSE x_arg

\* The client's table once __init__ has returned: self.x = x binds a name, and
\* add_intercept rebinds self.x to the new table assign() returns.
CallerTableAfterInit(x_arg, ci_arg) == x_arg

Init ==
    /\ constructed = FALSE
    /\ caller_x = NoTable
    /\ x_is_caller = FALSE
    /\ x_own = NoTable
    /\ y = NoVector
    /\ create_intercept = FALSE
    /\ regression_type = ""
    /\ results = <<>>
    /\ raised = "None"
    /\ printed = <<>>
    /\ returned = <<>>
    /\ last_op = ""
    /\ ran = ""
    /\ init_args = NoArgs
    /\ arg_x = NoTable
    /\ minim_success = <<>>
    /\ ever_fitted = FALSE
    /\ replaced = <<>>
    /\ streak = 0

\* RegressionModel(x, y, create_intercept, regression_type), the first call of a
\* behaviour.  An exception in __init__ leaves the client without an object.
__init__(x_arg, y_arg, ci_arg, rt_arg) ==
    /\ last_op' = "__init__"
    /\ init_args' = ArgsOf(x_arg, y_arg, ci_arg, rt_arg)
    /\ raised' = InitRaises(x_arg, y_arg, ci_arg, rt_arg)
    /\ caller_x' = IF raised' = "None" THEN CallerTableAfterInit(x_arg, ci_arg) ELSE NoTable
    /\ arg_x' = IF raised' = "None" THEN x_arg ELSE NoTable
    /\ printed' = <<>>
    /\ returned' = <<>>
    /\ ran' = ""
    /\ results' = <<>>
    /\ UNCHANGED <<minim_success, ever_fitted, replaced, streak>>
    /\ IF raised' = "None"
       THEN /\ constructed' = TRUE
            /\ y' = y_arg
            /\ create_intercept' = ci_arg.val
            /\ x_is_caller' = ~ci_arg.val
            /\ x_own' = IF ci_arg.val THEN add_intercept(x_arg) ELSE NoTable
            /\ regression_type' = rt_arg.val
       ELSE /\ constructed' = FALSE
            /\ y' = NoVector
            /\ create_intercept' = FALSE
            /\ x_is_caller' = FALSE
            /\ x_own' = NoTable
            /\ regression_type' = ""

\* self.x
x == IF x_is_caller THEN caller_x ELSE x_own

Construct ==
    /\ last_op = ""
    /\ \E x_arg \in XArgs, y_arg \in YArgs, ci_arg \in InterceptArgs, rt_arg \in TypeArgs :
           __init__(x_arg, y_arg, ci_arg, rt_arg)

----------------------------------------------------------------------------
\* Exact arithmetic for the linear algebra.

\* f itself.  TLC keeps a function constructor unevaluated and works its body out
\* again at every application; the comparison makes it a table, once.
Table(f) == IF f = f THEN f ELSE f

Abs(a) == IF a < 0 THEN -a ELSE a

RECURSIVE Gcd(_, _)
Gcd(a, b) == IF b = 0 THEN a ELSE Gcd(b, a % b)

\* The rational n/d (d # 0) in lowest terms with a positive denominator.
Q(n, d) ==
    LET s == IF d < 0 THEN -1 ELSE 1
        g == Gcd(Abs(n), Abs(d))
    IN  <<(s * n) \div g, (s * d) \div g>>

RECURSIVE SumSeq(_)
SumSeq(s) == IF s = <<>> THEN 0 ELSE Head(s) + SumSeq(Tail(s))

Dot(u, v) == SumSeq([i \in 1..Len(u) |-> u[i] * v[i]])

\* x.T.dot(x): entry (j1, j2) is the product of columns j1 and j2.
XtX(t) == [j1 \in 1..NCols(t) |-> [j2 \in 1..NCols(t) |-> Dot(t.data[j1], t.data[j2])]]

Minor(M, r, c) ==
    [i \in 1..(Len(M) - 1) |-> [j \in 1..(Len(M) - 1) |->
        M[IF i < r THEN i ELSE i + 1][IF j < c THEN j ELSE j + 1]]]

Sign(e) == IF e % 2 = 0 THEN 1 ELSE -1

RECURSIVE Det(_)
Det(M) ==
    IF Len(M) = 0 THEN 1
    ELSE IF Len(M) = 1 THEN M[1][1]
    ELSE SumSeq([c \in 1..Len(M) |-> Sign(1 + c) * M[1][c] * Det(Minor(M, 1, c))])

\* The adjugate: M's inverse is Adj(M) / Det(M).
Adj(M) == [i \in 1..Len(M) |-> [j \in 1..Len(M) |-> Sign(i + j) * Det(Minor(M, j, i))]]

----------------------------------------------------------------------------
\* np.linalg.solve and np.linalg.inv on a singular matrix.  Both factor the matrix
\* (LAPACK gesv: elimination with partial pivoting, in floating point) and raise
\* LinAlgError only when a pivot is exactly 0.0.  A pivot that is zero in exact
\* arithmetic is 0.0 for certain when the floating-point elimination made no
\* rounding on the way to it; otherwise it is whatever the roundings left, zero
\* or not, and which one depends on the build (reciprocal scaling, fused
\* multiply-add).  Below the elimination is done on exact rationals and every
\* entry carries a mark: rounded (t = TRUE) or exact.  A multiplier that is no
\* dyadic rational is rounded, and so is what is computed from a rounded value.

Zero == <<0, 1>>

RSub(p, q) == Q(p[1] * q[2] - q[1] * p[2], p[2] * q[2])
RMul(p, q) == Q(p[1] * q[1], p[2] * q[2])
RDiv(p, q) == Q(p[1] * q[2], p[2] * q[1])
RAbsLess(p, q) == Abs(p[1]) * q[2] < Abs(q[1]) * p[2]

RECURSIVE IsPow2(_)
IsPow2(d) == d = 1 \/ (d > 1 /\ d % 2 = 0 /\ IsPow2(d \div 2))

\* The integer matrix M with every entry exact.
Marked(M) == [i \in 1..Len(M) |-> [j \in 1..Len(M) |-> [v |-> <<M[i][j], 1>>, t |-> FALSE]]]

ExactZero(e) == e.v[1] = 0 /\ ~e.t

\* Elimination from column c on.  TRUE: a pivot is 0.0 for certain (some row left is
\* zero throughout and exact, so that it ends as a pivot however the other rows
\* came out).  FALSE: the zero pivot hangs on roundings.
RECURSIVE ZeroPivotFrom(_, _)
ZeroPivotFrom(M, c) ==
    LET n == Len(M) IN
    IF c > n THEN FALSE
    ELSE IF \A r \in c..n : M[r][c].v[1] = 0
    THEN \E r \in c..n : \A j \in c..n : ExactZero(M[r][j])
    ELSE LET p == CHOOSE r \in c..n :
                    /\ \A s \in c..n : ~RAbsLess(M[r][c].v, M[s][c].v)
                    /\ \A s \in c..(r - 1) : RAbsLess(M[s][c].v, M[r][c].v)
             S == [r \in 1..n |-> IF r = c THEN M[p] ELSE IF r = p THEN M[c] ELSE M[r]]
             E == [r \in 1..n |->
                     IF r <= c \/ ExactZero(S[r][c]) THEN S[r]
                     ELSE LET l == RDiv(S[r][c].v, S[c][c].v)
                              lt == S[r][c].t \/ S[c][c].t \/ ~IsPow2(l[2])
                          IN  [j \in 1..n |->
                                 IF j < c THEN S[r][j]
                                 ELSE IF j = c THEN [v |-> Zero, t |-> FALSE]
                                 ELSE [v |-> RSub(S[r][j].v, RMul(l, S[c][j].v)),
                                       t |-> S[r][j].t \/
                                             ((lt \/ S[c][j].t) /\ ~ExactZero(S[c][j]))]]]
         IN  ZeroPivotFrom(Table(E), c + 1)

\* For a singular integer matrix A: LinAlgError is certain.
ZeroPivotCertain(A) == ZeroPivotFrom(Table(Marked(A)), 1)

----------------------------------------------------------------------------
\* The numbers a fit stores.  [tag, a, b, df], a and b rationals:
\*   "q"                   the rational a
\*   "sqrt(a)"             np.sqrt of a
\*   "a/sqrt(b)"           a divided by np.sqrt of b
\*   "t.sf(a/sqrt(b),df)"  stat.t.sf of that with df degrees of freedom
\*   "nan"                 NaN
\*   "x/0"                 a quantity divided by n - k = 0 (NaN or an infinity)
\*   "minim.x[a]"          entry a of the optimizer's result
\*   "sqrt(s2*b)"          np.sqrt of sigmahat2 times b
\*   "minim.x[a]/sqrt(s2*b)", "2*norm.sf(|minim.x[a]/sqrt(s2*b)|)"
\*   "lost"                what comes of a singular matrix solve/inv did not refuse:
\*                         a number the roundings made up
\*   "sqrt(<0)"            np.sqrt of a negative number: NaN
Num(tag, a, b, df) == [tag |-> tag, a |-> a, b |-> b, df |-> df]
NumNaN == Num("nan", Zero, Zero, 0)
NumLost == Num("lost", Zero, Zero, 0)
NumSqrtNeg == Num("sqrt(<0)", Zero, Zero, 0)

\* A dict as the sequence of its items in insertion order; d[key] = val keeps an
\* existing key's place and replaces its value.
DictSet(d, key, val) ==
    IF \E p \in 1..Len(d) : d[p].key = key
    THEN [p \in 1..Len(d) |-> IF d[p].key = key THEN [key |-> key, val |-> val] ELSE d[p]]
    ELSE Append(d, [key |-> key, val |-> val])

Keys(d) == [p \in 1..Len(d) |-> d[p].key]

\* self.results = dict(); for i in enumerate(self.x.columns): self.results[i[1]] = recs[i[0]]
\* old is what self.results was (<<>>: no such attribute): the dict is made anew.
RECURSIVE StoreFrom(_, _, _, _)
StoreFrom(d, columns, recs, i) ==
    IF i > Len(columns) THEN d
    ELSE StoreFrom(DictSet(d, columns[i], recs[i]), columns, recs, i + 1)

StoreResultsMerged(old, columns, recs) ==
    StoreFrom(IF old = <<>> THEN <<>> ELSE old[1], columns, recs, 1)

StoreResults(old, columns, recs) == StoreFrom(<<>>, columns, recs, 1)

ErrSingular == "LinAlgError: Singular matrix"
ErrNotAligned == "ValueError: matrices are not aligned"
ErrShape == "ValueError: operands of different shape"
ErrIndex == "IndexError: single positional indexer is out-of-bounds"
ErrNoResults == "AttributeError: 'RegressionModel' object has no attribute 'results'"
ErrWrongInput == "RuntimeError: Wrong Regression Input"
ErrNoProbit == "RuntimeError: Nice try sport, no Probit here :)"

\* What one call of an estimator did: the exception it raised ("None": it
\* returned), what it printed, the records it stored per column, self.y after it,
\* and minim.success when minimize() returned (<<>>: it was not called, or raised).
Outcome(ran_, raised_, printed_, recs_, y_) ==
    [ran |-> ran_, raised |-> raised_, printed |-> printed_, recs |-> recs_, y |-> y_,
     success |-> <<>>]

WithSuccess(o, s) == [o EXCEPT !.success = <<s>>]

----------------------------------------------------------------------------
\* ols_regression

\* y's values in the order of x's row labels (x.T.dot(y) and y - x.dot(beta) align
\* on the labels).
Aligned(t, v) == Reindex(v, t.index)

\* As OlsBetaNum, had beta been x.T.dot(y) without the inverse in front.
OlsBetaNumNoInverse(t, v) ==
    LET yv == Table(Aligned(t, v))
    IN  Table([j \in 1..NCols(t) |-> Dot(t.data[j], yv) * Det(Table(XtX(t)))])

\* beta = OlsBetaNum / det(XtX), the solution of the normal equations.
OlsBetaNum(t, v) ==
    LET C == Table(Adj(Table(XtX(t))))
        yv == Table(Aligned(t, v))
        Xty == Table([j \in 1..NCols(t) |-> Dot(t.data[j], yv)])
    IN  Table([j \in 1..NCols(t) |-> Dot(C[j], Xty)])

\* eps = y - x.dot(beta) = OlsEpsNum / det(XtX)
OlsEpsNum(t, v) ==
    LET d == Det(Table(XtX(t)))
        yv == Table(Aligned(t, v))
        bnum == OlsBetaNum(t, v)
    IN  Table([i \in 1..NRows(t) |->
                yv[i] * d - SumSeq([j \in 1..NCols(t) |-> t.data[j][i] * bnum[j]])])

\* The record stored per column, for a finite design with det(XtX) # 0 and y
\* aligned.  nanrest: everything but the coefficient is NaN.
OlsRecords(t, v, nanrest) ==
    LET n == NRows(t)
        k == NCols(t)
        A == Table(XtX(t))
        d == Det(A)
        C == Table(Adj(A))
        bnum == OlsBetaNum(t, v)
        e == OlsEpsNum(t, v)
        sse == Q(Dot(e, e), d * d)
        beta == Table([j \in 1..k |-> Q(bnum[j], d)])
        \* var = diag(shat * inverse), shat = sse / (n - k)
        var == [j \in 1..k |-> Q(sse[1] * C[j][j], sse[2] * (n - k) * d)]
    IN  [j \in 1..k |->
            IF nanrest
            THEN [coefficient |-> Num("q", beta[j], Zero, 0),
                  standard_error |-> NumNaN, t_stat |-> NumNaN, p_value |-> NumNaN]
            ELSE IF n = k
            THEN [coefficient |-> Num("q", beta[j], Zero, 0),
                  standard_error |-> Num("x/0", Zero, Zero, 0),
                  t_stat |-> Num("x/0", beta[j], Zero, 0),
                  p_value |-> NumNaN]
            ELSE [coefficient |-> Num("q", beta[j], Zero, 0),
                  standard_error |-> Num("sqrt(a)", var[j], Zero, 0),
                  t_stat |-> Num("a/sqrt(b)", beta[j], var[j], 0),
                  p_value |-> Num("t.sf(a/sqrt(b),df)", beta[j], var[j], n - k)]]

OlsNaNRecords(t) ==
    [j \in 1..NCols(t) |->
        [coefficient |-> NumNaN, standard_error |-> NumNaN,
         t_stat |-> NumNaN, p_value |-> NumNaN]]

\* The records when solve() returned on a singular x.T.dot(x): every number comes
\* of the inverse the roundings made up (the same one at every call: the
\* factorisation is deterministic).
OlsLostRecords(t) ==
    [j \in 1..NCols(t) |->
        [coefficient |-> NumLost, standard_error |-> NumLost,
         t_stat |-> NumLost, p_value |-> NumLost]]

OlsFails(err, v) == Outcome("ols_regression", err, <<>>, <<>>, v)

\* As OlsDone, had eps been y itself, changed in place (eps = y; eps -= x.dot(beta)):
\* self.y ends as the residuals (here their numerators over det(XtX)).
OlsDoneInPlace(t, v, recs) ==
    Outcome("ols_regression", "None", <<>>, recs,
            [v EXCEPT !.values = IF HasNaN(t) THEN [i \in 1..Len(v.values) |-> 0]
                                 ELSE OlsEpsNum(t, v)])

\* ols_regression ran to its end: eps, shat, ... are new objects, x and y are as
\* they were.
OlsDone(t, v, recs) == Outcome("ols_regression", "None", <<>>, recs, v)

\* What ols_regression can do on design t and response v.  More than one outcome
\* where the result hangs on what the model leaves open: the label of the one
\* column of a DataFrame y (y - x.dot(beta) aligns it with the label 0), which
\* pivot LAPACK takes in a matrix with NaN, and the roundings on the way to a
\* zero pivot.
ols_regression(t, v) ==
    IF HasNaN(t)
    THEN {OlsFails(ErrSingular, v)} \cup
         (IF Range(t.index) # Range(v.index) THEN {OlsFails(ErrNotAligned, v)}
          ELSE IF v.type = "DataFrame"
               THEN {OlsFails(ErrShape, v)} \cup
                    (IF NCols(t) <= 2 THEN {OlsDone(t, v, OlsNaNRecords(t))} ELSE {})
               ELSE {OlsDone(t, v, OlsNaNRecords(t))})
    ELSE IF Det(XtX(t)) = 0
    THEN {OlsFails(ErrSingular, v)} \cup
         (IF ZeroPivotCertain(XtX(t)) THEN {}
          ELSE IF Range(t.index) # Range(v.index) THEN {OlsFails(ErrNotAligned, v)}
          ELSE IF v.type = "DataFrame" THEN {OlsFails(ErrShape, v)}
          ELSE {OlsDone(t, v, OlsLostRecords(t))})
    ELSE IF Range(t.index) # Range(v.index) THEN {OlsFails(ErrNotAligned, v)}
    ELSE IF v.type = "DataFrame"
         THEN {OlsFails(ErrShape, v)} \cup
              (IF NCols(t) = 1 THEN {OlsDone(t, v, OlsRecords(t, v, FALSE))}
               ELSE IF NCols(t) = 2 THEN {OlsDone(t, v, OlsRecords(t, v, TRUE))}
               ELSE {})
    ELSE {OlsDone(t, v, OlsRecords(t, v, FALSE))}

----------------------------------------------------------------------------
\* logistic_regression

\* As LogitRecords, with the OLS name of the test statistic.
LogitRecordsTStat(t) ==
    LET k == NCols(t)
        A == Table(XtX(t))
        d == Det(A)
        C == Table(Adj(A))
    IN  [j \in 1..k |->
            LET zjj == Q(C[j][j], d) IN
            [coefficient |-> Num("minim.x[a]", <<j, 1>>, Zero, 0),
             standard_error |-> Num("sqrt(s2*b)", Zero, zjj, 0),
             t_stat |-> Num("minim.x[a]/sqrt(s2*b)", <<j, 1>>, zjj, 0),
             p_value |-> Num("2*norm.sf(|minim.x[a]/sqrt(s2*b)|)", <<j, 1>>, zjj, 0)]]

\* The record stored per column, for a finite design with det(XtX) # 0:
\* se = diag(sqrt(sigmahat2 * inv(x.T @ x))), zstat = beta / se.
LogitRecords(t) ==
    LET k == NCols(t)
        A == Table(XtX(t))
        d == Det(A)
        C == Table(Adj(A))
    IN  [j \in 1..k |->
            LET zjj == Q(C[j][j], d) IN
            [coefficient |-> Num("minim.x[a]", <<j, 1>>, Zero, 0),
             standard_error |-> Num("sqrt(s2*b)", Zero, zjj, 0),
             z_stat |-> Num("minim.x[a]/sqrt(s2*b)", <<j, 1>>, zjj, 0),
             p_value |-> Num("2*norm.sf(|minim.x[a]/sqrt(s2*b)|)", <<j, 1>>, zjj, 0)]]

LogitNaNRecords(t) ==
    [j \in 1..NCols(t) |->
        [coefficient |-> NumNaN, standard_error |-> NumNaN,
         z_stat |-> NumNaN, p_value |-> NumNaN]]

\* The records when inv() returned on a singular x.T @ x: beta is the
\* optimizer's, the rest comes of the inverse the roundings made up, one huge
\* multiple of v v^T (v spans the null space) with a diagonal of one sign; a
\* negative diagonal makes np.sqrt(covmatrix) NaN there.
LogitLostRecords(t, negative) ==
    [j \in 1..NCols(t) |->
        [coefficient |-> Num("minim.x[a]", <<j, 1>>, Zero, 0),
         standard_error |-> IF negative THEN NumSqrtNeg ELSE NumLost,
         z_stat |-> IF negative THEN NumNaN ELSE NumLost,
         p_value |-> IF negative THEN NumNaN ELSE NumLost]]

Line(kind, cells, vals) == [kind |-> kind, cells |-> cells, vals |-> vals]

\* print(beta); then print(se), print(len(zstat)), print(pvals)
LogitPrintsBeta == <<Line("print(beta)", <<>>, <<>>)>>
LogitPrintsAll ==
    LogitPrintsBeta \o <<Line("print(se)", <<>>, <<>>),
                         Line("print(len(zstat))", <<>>, <<>>),
                         Line("print(pvals)", <<>>, <<>>)>>

LogitDone(v, recs) == Outcome("logistic_regression", "None", LogitPrintsAll, recs, v)
LogitFails(err, out, v) == Outcome("logistic_regression", err, out, <<>>, v)

\* logistic_regression from line 459 on, minimize() having returned.
LogitAfterMinimize(t, v) ==
    IF HasNaN(t)
    THEN {LogitFails(ErrSingular, LogitPrintsBeta, v), LogitDone(v, LogitNaNRecords(t))}
    ELSE IF Det(XtX(t)) = 0
    THEN {LogitFails(ErrSingular, LogitPrintsBeta, v)} \cup
         (IF ZeroPivotCertain(XtX(t)) THEN {}
          ELSE {LogitDone(v, LogitLostRecords(t, negative)) : negative \in BOOLEAN})
    ELSE {LogitDone(v, LogitRecords(t))}

\* What logistic_regression can do on design t and response v: minimize() walks
\* the rows i < len(y) by position (x.iloc[i], y.iloc[i]); after it beta is
\* printed and x.T @ x inverted.  With a DataFrame y the gradient's
\* xi * (yi - p) aligns x's column names with y's column label, open here.
\* minimize() returns an OptimizeResult whose success flag says whether BFGS
\* converged; the flag is not read (beta = minim.x), so it is left open here.
logistic_regression(t, v) ==
    IF Len(v.index) > NRows(t) THEN {LogitFails(ErrIndex, <<>>, v)}
    ELSE (IF v.type = "DataFrame" THEN {LogitFails(ErrShape, <<>>, v)} ELSE {}) \cup
         {WithSuccess(o, s) : s \in BOOLEAN, o \in LogitAfterMinimize(t, v)}

----------------------------------------------------------------------------
\* fit_model, summary, the attribute results

\* As FitOutcomes, with the two branches taking each other's estimator.
FitOutcomesSwapped(rt, t, v) ==
    IF rt = "ols" THEN logistic_regression(t, v)
    ELSE IF rt = "logit" THEN ols_regression(t, v)
    ELSE {Outcome("", ErrWrongInput, <<>>, <<>>, v)}

\* fit_model(): the estimator of self.regression_type.
FitOutcomes(rt, t, v) ==
    IF rt = "ols" THEN ols_regression(t, v)
    ELSE IF rt = "logit" THEN logistic_regression(t, v)
    ELSE {Outcome("", ErrWrongInput, <<>>, <<>>, v)}

\* As fit_model, had the estimators begun with self.results = dict().
fit_model_resets_first(o) ==
    /\ last_op' = "fit_model"
    /\ ran' = o.ran
    /\ raised' = o.raised
    /\ printed' = o.printed
    /\ returned' = <<>>
    /\ y' = o.y
    /\ minim_success' = o.success
    /\ arg_x' = NoTable
    /\ results' = IF o.raised = "None"
                  THEN <<StoreResults(results, x.columns, o.recs)>>
                  ELSE << <<>> >>
    /\ ever_fitted' = (ever_fitted \/ o.raised = "None")
    /\ replaced' = results
    /\ streak' = IF o.raised # "None" THEN 0
                 ELSE IF streak < MaxStreak THEN streak + 1 ELSE streak
    /\ UNCHANGED <<constructed, caller_x, x_is_caller, x_own, create_intercept,
                   regression_type, init_args>>

\* fit_model(): the estimator runs; self.results is bound anew as its last step
\* but the loop that fills it.
fit_model(o) ==
    /\ last_op' = "fit_model"
    /\ ran' = o.ran
    /\ raised' = o.raised
    /\ printed' = o.printed
    /\ returned' = <<>>
    /\ y' = o.y
    /\ minim_success' = o.success
    /\ arg_x' = NoTable
    /\ results' = IF o.raised = "None"
                  THEN <<StoreResults(results, x.columns, o.recs)>>
                  ELSE results
    /\ ever_fitted' = (ever_fitted \/ o.raised = "None")
    /\ replaced' = results
    /\ streak' = IF o.raised # "None" THEN 0
                 ELSE IF streak < MaxStreak THEN streak + 1 ELSE streak
    /\ UNCHANGED <<constructed, caller_x, x_is_caller, x_own, create_intercept,
                   regression_type, init_args>>

Fit ==
    /\ constructed
    /\ \E o \in FitOutcomes(regression_type, x, y) : fit_model(o)

OlsHeader == Line("header", <<"Variable Name", "| Coefficient", "| Standard Error",
                              "| T-Statistic", "| P-Value">>, <<>>)
LogitHeader == Line("header", <<"Variable Name", "| Coefficient", "| Standard Error",
                                "| z-statistic", "| p-value">>, <<>>)

\* One printed row per item of the dict, in the dict's order: the key, then
\* round(., 3) of the coefficient, the standard error, the statistic, the p-value.
SummaryRows(rt, d) ==
    [p \in 1..Len(d) |->
        Line("row", <<d[p].key>>,
             <<d[p].val.coefficient, d[p].val.standard_error,
               IF rt = "ols" THEN d[p].val.t_stat ELSE d[p].val.z_stat,
               d[p].val.p_value>>)]

\* summary(): [raised, printed].  The header is printed before self.results is
\* looked up.
summary(rt, res) ==
    IF rt \notin {"ols", "logit"} THEN [raised |-> ErrNoProbit, printed |-> <<>>]
    ELSE LET header == IF rt = "ols" THEN OlsHeader ELSE LogitHeader IN
         IF res = <<>> THEN [raised |-> ErrNoResults, printed |-> <<header>>]
         ELSE [raised |-> "None", printed |-> <<header>> \o SummaryRows(rt, res[1])]

Summary ==
    /\ constructed
    /\ last_op' = "summary"
    /\ raised' = summary(regression_type, results).raised
    /\ printed' = summary(regression_type, results).printed
    /\ returned' = <<>>
    /\ ran' = ""
    /\ replaced' = <<>>
    /\ streak' = 0
    /\ minim_success' = <<>>
    /\ arg_x' = NoTable
    /\ UNCHANGED <<constructed, caller_x, x_is_caller, x_own, y, create_intercept,
                   regression_type, results, init_args, ever_fitted>>

\* As get_results, had __init__ set self.results = {}.
get_results_empty(res) ==
    IF res = <<>> THEN [raised |-> "None", returned |-> << <<>> >>]
    ELSE [raised |-> "None", returned |-> res]

\* reg.results: [raised, returned]
get_results(res) ==
    IF res = <<>> THEN [raised |-> ErrNoResults, returned |-> <<>>]
    ELSE [raised |-> "None", returned |-> res]

ReadResults ==
    /\ constructed
    /\ last_op' = "results"
    /\ raised' = get_results(results).raised
    /\ returned' = get_results(results).returned
    /\ printed' = <<>>
    /\ ran' = ""
    /\ replaced' = <<>>
    /\ streak' = 0
    /\ minim_success' = <<>>
    /\ arg_x' = NoTable
    /\ UNCHANGED <<constructed, caller_x, x_is_caller, x_own, y, create_intercept,
                   regression_type, results, init_args, ever_fitted>>

\* The client renames, in place, the columns of the table it passed in
\* (x.columns = names).  self.x = x made the model's x that very table unless
\* add_intercept() replaced it by a copy; a rename of a table the model does
\* not hold changes nothing of the model and is left out.
CallerSetsColumns ==
    /\ constructed
    /\ x_is_caller
    /\ \E names \in SeqsOfLen(Names, NCols(caller_x)) :
          /\ names # caller_x.columns
          /\ caller_x' = [caller_x EXCEPT !.columns = names]
    /\ last_op' = "x.columns ="
    /\ raised' = "None"
    /\ printed' = <<>>
    /\ returned' = <<>>
    /\ ran' = ""
    /\ replaced' = <<>>
    /\ streak' = 0
    /\ minim_success' = <<>>
    /\ arg_x' = NoTable
    /\ UNCHANGED <<constructed, x_is_caller, x_own, y, create_intercept,
                   regression_type, results, init_args, ever_fitted>>

Next ==
    \/ Construct
    \/ Fit
    \/ Summary
    \/ ReadResults
    \/ CallerSetsColumns

Spec == Init /\ [][Next]_vars

----------------------------------------------------------------------------
\* The claims.

Ones(n) == [i \in 1..n |-> 1]

\* The estimator fit_model() is to enter for family rt.
EstimatorOf(rt) == IF rt = "ols" THEN "ols_regression" ELSE "logistic_regression"

\* The dicts the estimator of family rt can store for design t and response v.
MappingsOf(rt, t, v) ==
    {StoreFrom(<<>>, t.columns, o.recs, 1) :
        o \in {q \in (IF rt = "ols" THEN ols_regression(t, v) ELSE logistic_regression(t, v)) :
                    q.raised = "None"}}

\* A dataset as the spec's data model wants it: as many rows in x as in y, under
\* the same labels, the default ones, y a Series.
WellFormed ==
    /\ ~HasNaN(x)
    /\ x.index = IndexFrom(0, NRows(x))
    /\ y.index = x.index
    /\ y.type = "Series"

\* C1 as stated, on well-formed datasets: every fit_model() runs the estimator
\* of the stored family, stores its mapping and leaves the model Fitted.
C1_Original ==
    (last_op = "fit_model" /\ WellFormed) =>
        /\ ran = EstimatorOf(regression_type)
        /\ raised = "None"
        /\ results # <<>>
        /\ results[1] \in MappingsOf(regression_type, x, y)

\* C1, amended: every fit_model() enters the estimator of the stored family and
\* never the other one; when that estimator returns without raising, results
\* holds the mapping that estimator builds for self.x and self.y, and the model is
\* Fitted.
C1_FitDispatches ==
    last_op = "fit_model" =>
        /\ ran = EstimatorOf(regression_type)
        /\ raised = "None" =>
              /\ results # <<>>
              /\ results[1] \in MappingsOf(regression_type, x, y)

\* A first fit of a logit model has returned: Constructed -> Fitted.
C1_Witness ==
    /\ last_op = "fit_model"
    /\ raised = "None"
    /\ regression_type = "logit"
    /\ ran = "logistic_regression"
    /\ replaced = <<>>
    /\ results # <<>>

\* C2 as stated, on well-formed datasets: after a fit_model() that returned, the keys of results are the
\* design matrix's column names in column order, one entry per column, with
\* 'intercept' among them when create_intercept is true.
C2_Original ==
    (last_op = "fit_model" /\ raised = "None" /\ WellFormed) =>
        /\ Keys(results[1]) = x.columns
        /\ Len(results[1]) = NCols(x)
        /\ create_intercept => "intercept" \in Range(Keys(results[1]))

\* C3: in every Fitted state each record of results has exactly the fields
\* coefficient, standard_error, p_value and the test statistic of the stored
\* family, t_stat for 'ols' and z_stat for 'logit'.
C3_RecordFields ==
    results # <<>> =>
        \A p \in 1..Len(results[1]) :
            DOMAIN results[1][p].val =
                {"coefficient", "standard_error", "p_value",
                 IF regression_type = "ols" THEN "t_stat" ELSE "z_stat"}

\* A fitted logit model with two records.
C3_Witness ==
    /\ results # <<>>
    /\ regression_type = "logit"
    /\ Len(results[1]) >= 2

\* C4: on a model no fit_model() of which has returned, reading results, directly
\* or in summary(), raises (AttributeError: there is no attribute results) and
\* returns no mapping.
C4_NotFitted ==
    (last_op \in {"results", "summary"} /\ ~ever_fitted) =>
        /\ raised = ErrNoResults
        /\ returned = <<>>

\* results was read on a model that was never fitted.
C4_Witness ==
    /\ last_op = "results"
    /\ ~ever_fitted
    /\ raised = ErrNoResults

\* C5: a family that is not the string 'ols' or 'logit' makes the constructor
\* raise, with the family's own error when the arguments before it are valid; so
\* the stored regression_type is 'ols' or 'logit' and fit_model() never raises
\* 'Wrong Regression Input'.
C5_FamilyValidated ==
    /\ (last_op = "__init__" /\ ~(init_args.rt = "str" /\ init_args.rt_val \in {"ols", "logit"})) =>
          /\ ~constructed
          /\ raised # "None"
          /\ (init_args.x = "DataFrame" /\ init_args.y \in {"Series", "DataFrame"}
                /\ init_args.ci = "bool") =>
                 raised = (IF init_args.rt = "str" THEN ErrTypeUnsupported ELSE ErrTypeNotStr)
    /\ constructed => regression_type \in {"ols", "logit"}
    /\ raised # ErrWrongInput

\* The constructor refused the family 'probit'.
C5_Witness ==
    /\ last_op = "__init__"
    /\ init_args.rt_val = "probit"
    /\ raised = ErrTypeUnsupported
    /\ ~constructed

\* C6: the constructor raises when x is no DataFrame or y neither a Series nor a
\* DataFrame, and no object results; of several invalid arguments the first in
\* the order x, y, create_intercept, regression_type is the one reported.
C6_InvalidInput ==
    last_op = "__init__" =>
        LET x_ok == init_args.x = "DataFrame"
            y_ok == init_args.y \in {"Series", "DataFrame"}
            ci_ok == init_args.ci = "bool"
            rt_ok == init_args.rt = "str" /\ init_args.rt_val \in {"ols", "logit"}
        IN  /\ ~x_ok => (raised = ErrXNotDataFrame /\ ~constructed)
            /\ (x_ok /\ ~y_ok) => (raised = ErrYNotDataFrame /\ ~constructed)
            /\ (x_ok /\ y_ok /\ ~ci_ok) => (raised = ErrInterceptNotBool /\ ~constructed)
            /\ (x_ok /\ y_ok /\ ci_ok /\ ~rt_ok) =>
                  (raised \in {ErrTypeUnsupported, ErrTypeNotStr} /\ ~constructed)

\* The constructor was given an x, a y and a flag that are all invalid, and
\* reported x.
C6_Witness ==
    /\ last_op = "__init__"
    /\ init_args.x = "ndarray"
    /\ init_args.y = "list"
    /\ init_args.ci = "int"
    /\ raised = ErrXNotDataFrame
    /\ ~constructed

\* C7 as stated: every constructed model has as many rows in x as entries in y.
C7_Original == constructed => NRows(x) = Len(y.index)

\* C8 as stated, for tables that have no column named 'intercept' yet: after
\* add_intercept() the design matrix is the table's columns in their order,
\* followed by a column 'intercept' of n ones.
C8_Original ==
    (last_op = "__init__" /\ constructed /\ create_intercept
        /\ "intercept" \notin Range(caller_x.columns)) =>
        /\ x.columns = Append(caller_x.columns, "intercept")
        /\ x.index = caller_x.index
        /\ x.data = Append(caller_x.data, Ones(NRows(caller_x)))

\* C9: a fit_model() that returns on a fitted model leaves in results exactly
\* the mapping it has built: every key is a column of the design matrix as it is
\* now, and none is left from the mapping it replaced.
C9_RefitReplaces ==
    (last_op = "fit_model" /\ raised = "None" /\ replaced # <<>>) =>
        /\ \A p \in 1..Len(results[1]) : results[1][p].key \in Range(x.columns)
        /\ results[1] \in MappingsOf(regression_type, x, y)

\* A refit has returned whose keys are not those of the mapping it replaced.
C9_Witness ==
    /\ last_op = "fit_model"
    /\ raised = "None"
    /\ replaced # <<>>
    /\ Keys(replaced[1]) # Keys(results[1])

\* C10: when two fit_model() calls in a row have returned on an 'ols' model, the
\* second left results equal to what the first had left: the same keys in the
\* same order with the same field values.
C10_OlsIdempotent ==
    (streak >= 2 /\ regression_type = "ols") => results = replaced

\* Two OLS fits in a row have returned.
C10_Witness ==
    /\ streak >= 2
    /\ regression_type = "ols"
    /\ last_op = "fit_model"
    /\ results # <<>>

\* No two columns of t hold the same values.
ColumnsDiffer(t) == \A i, j \in 1..NCols(t) : i # j => t.data[i] # t.data[j]

\* No two columns of t have the same name.
NamesDiffer(t) == \A i, j \in 1..NCols(t) : i # j => t.columns[i] # t.columns[j]

\* C11 as stated, for n = k with a nonsingular X'X on a well-formed dataset: an
\* OLS fit with n <= k raises and stores no results.
C11_Original ==
    (last_op = "fit_model" /\ ran = "ols_regression" /\ WellFormed
        /\ NRows(x) <= NCols(x) /\ Det(XtX(x)) # 0) =>
        /\ raised # "None"
        /\ results = replaced

\* C12 as stated, on a well-formed dataset with a nonsingular X'X: when
\* minimize() reported success = False, the logistic fit raises and stores no
\* results.
C12_Original ==
    (last_op = "fit_model" /\ ran = "logistic_regression" /\ WellFormed
        /\ Det(XtX(x)) # 0 /\ minim_success = <<FALSE>>) =>
        /\ raised # "None"
        /\ results = replaced

\* C13 as stated, on well-formed datasets whose columns differ from one another:
\* when X'X is singular, fit_model() raises the singular-matrix error and stores
\* no results, for both families.
C13_Original ==
    (last_op = "fit_model" /\ WellFormed /\ ColumnsDiffer(x) /\ Det(XtX(x)) = 0) =>
        /\ raised = ErrSingular
        /\ results = replaced

FieldsOfRecord == {"coefficient", "standard_error", "z_stat", "t_stat", "p_value"}

\* C14 as stated, on well-formed datasets whose columns differ from one another:
\* after a logistic fit that returned, a record whose standard error is the NaN
\* of a negative number under the square root carries, next to its statistics, a
\* field that records the warning.
C14_Original ==
    (last_op = "fit_model" /\ ran = "logistic_regression" /\ raised = "None"
        /\ WellFormed /\ ColumnsDiffer(x)) =>
        \A p \in 1..Len(results[1]) :
            results[1][p].val.standard_error.tag = "sqrt(<0)" =>
                (DOMAIN results[1][p].val) \ FieldsOfRecord # {}

\* C15: a fit_model() or summary() call leaves self.x (values, columns, their
\* order), self.y, create_intercept and regression_type as they were, and the
\* client's table too; and when the constructor has returned, the table it was
\* given is as it was given, intercept or not.
C15_Immutable ==
    /\ [][last_op' \in {"fit_model", "summary"} =>
            /\ x' = x
            /\ y' = y
            /\ create_intercept' = create_intercept
            /\ regression_type' = regression_type
            /\ caller_x' = caller_x]_vars
    /\ []((last_op = "__init__" /\ constructed) => caller_x = arg_x)

\* A model built with the intercept has been fitted: its design matrix is a
\* table of its own, one column wider than the client's.
C15_Witness ==
    /\ last_op = "fit_model"
    /\ raised = "None"
    /\ create_intercept
    /\ NCols(x) = NCols(caller_x) + 1

\* Spellings of the title the assignment asks for in the second column.
LogOddsTitles == {"| Log odds-ratio value", "| Log Odds-Ratio Value",
                  "| Log odds-ratio", "| Log Odds-Ratio", "| Log Odds Ratio"}

\* C16 as stated: summary() on a fitted model prints the header of the stored
\* family and one row per entry of results in their order; the logit header reads
\* Variable name, Log odds-ratio value, standard error, z-statistic, p-value, the
\* OLS header has T-Statistic where the logit one has z-statistic.
C16_Original ==
    (last_op = "summary" /\ raised = "None") =>
        /\ Len(printed) = 1 + Len(results[1])
        /\ \A p \in 1..Len(results[1]) : printed[p + 1].cells = <<results[1][p].key>>
        /\ regression_type = "ols" => printed[1].cells[4] = "| T-Statistic"
        /\ regression_type = "logit" =>
              /\ printed[1].cells[1] = "Variable Name"
              /\ printed[1].cells[2] \in LogOddsTitles
              /\ printed[1].cells[3] = "| Standard Error"
              /\ printed[1].cells[4] = "| z-statistic"
              /\ printed[1].cells[5] = "| p-value"

RAdd(p, q) == Q(p[1] * q[2] + q[1] * p[2], p[2] * q[2])

RECURSIVE RSum(_)
RSum(s) == IF s = <<>> THEN Zero ELSE RAdd(Head(s), RSum(Tail(s)))

\* results[name] of the dict d.
Lookup(d, name) == d[CHOOSE p \in 1..Len(d) : d[p].key = name].val

C18_Original == last_op = "fit_model" => printed = <<>>

\* C19: a fit_model() that raised leaves results as it was when the call began:
\* absent on a model never fitted, else the mapping of the last fit that
\* returned, with its record for every key.
C19_FailedFitKeepsResults ==
    (last_op = "fit_model" /\ raised # "None") =>
        /\ results = replaced
        /\ ever_fitted = (results # <<>>)
        /\ results # <<>> =>
              /\ Len(results[1]) > 0
              /\ \A p \in 1..Len(results[1]) :
                    {"coefficient", "standard_error", "p_value"} \subseteq DOMAIN results[1][p].val

\* A fit_model() has raised on a fitted model.
C19_Witness ==
    /\ last_op = "fit_model"
    /\ raised # "None"
    /\ replaced # <<>>
    /\ results = replaced
====
